---- MODULE Spec2Model ----
(***************************************************************************)
(* Gaussian distributions in moment (M) and natural (E) parameters, their  *)
(* fusion (Mul / MulAssign) and the projected Gaussian (PGaussian) of      *)
(* src/src/gaussian.rs.                                                    *)
(*                                                                         *)
(* The scalar type R is modelled by exact rationals <<n, d>> (d > 0, in    *)
(* lowest terms); Array1<R> is a sequence of rationals and Array2<R> a     *)
(* sequence of rows.  A value of struct M, struct E or enum Gaussian is    *)
(* the record [tag, vec, mat]: tag "M" holds center / cov in vec / mat,    *)
(* tag "E" holds ab / prec.  A panic is modelled by an error result whose  *)
(* kind names the panic: "SingularMatrix" for the expect(".. is singular") *)
(* calls, "DimensionMismatch" for a shape panic of ndarray or assert_eq!.  *)
(***************************************************************************)
EXTENDS Integers, Sequences, FiniteSets, TLC

(***************************************************************************)
(* Bounds of the model.                                                    *)
(***************************************************************************)
MaxDim == 3
MaxVal == 2

(***************************************************************************)
(* R: exact rational arithmetic.                                           *)
(***************************************************************************)
Abs(x) == IF x < 0 THEN -x ELSE x

RECURSIVE GCD(_, _)
GCD(x, y) == IF y = 0 THEN x ELSE GCD(y, x % y)

Norm(n, d) ==
    IF n = 0 THEN <<0, 1>>
    ELSE LET g == GCD(Abs(n), Abs(d))
             s == IF d < 0 THEN -1 ELSE 1
         IN  <<(s * n) \div g, (s * d) \div g>>

RInt(i) == <<i, 1>>
RZero == RInt(0)
RAdd(x, y) == Norm(x[1] * y[2] + y[1] * x[2], x[2] * y[2])
RSub(x, y) == Norm(x[1] * y[2] - y[1] * x[2], x[2] * y[2])
RMul(x, y) == Norm(x[1] * y[1], x[2] * y[2])
RDiv(x, y) == Norm(x[1] * y[2], x[2] * y[1])
RNeg(x) == <<-x[1], x[2]>>
RPos(x) == x[1] > 0

(***************************************************************************)
(* Array1 / Array2 of ndarray.                                             *)
(***************************************************************************)
Rows(m) == Len(m)
Cols(m) == Len(m[1])
IsSquare(m) == Rows(m) = Cols(m)

\* the array with elements f[1] .. f[n], each computed once
Tup(f, n) == SubSeq(f, 1, n)

\* f[1] + .. + f[n]; the partial sum is computed before it is added to
RECURSIVE RSum(_, _)
RSum(f, n) ==
    IF n = 0 THEN RZero
    ELSE LET s == RSum(f, n - 1)
             t == f[n]
         IN  IF s[2] > 0 /\ t[2] > 0 THEN RAdd(s, t) ELSE RZero

\* Array2::t()
Transpose(m) ==
    Tup([j \in 1..Cols(m) |-> Tup([i \in 1..Rows(m) |-> m[i][j]], Rows(m))], Cols(m))

\* Array2::dot(&Array1); the caller has checked Cols(m) = Len(v)
MatVec(m, v) ==
    Tup([i \in 1..Rows(m) |->
            RSum([k \in 1..Len(v) |-> RMul(m[i][k], v[k])], Len(v))], Rows(m))

\* Array2::dot(&Array2); the caller has checked Cols(x) = Rows(y)
MatMul(x, y) ==
    Tup([i \in 1..Rows(x) |->
            Tup([j \in 1..Cols(y) |->
                    RSum([k \in 1..Rows(y) |-> RMul(x[i][k], y[k][j])], Rows(y))],
                Cols(y))], Rows(x))

\* m without row i and column j
Minor(m, i, j) ==
    Tup([r \in 1..(Rows(m) - 1) |->
            Tup([c \in 1..(Cols(m) - 1) |->
                    m[IF r < i THEN r ELSE r + 1][IF c < j THEN c ELSE c + 1]],
                Cols(m) - 1)], Rows(m) - 1)

\* The determinant and the inverse are computed on the integer matrix
\* n = l.m, l the least common denominator of the entries of m.
RECURSIVE LCM(_)
LCM(S) ==
    IF S = {} THEN 1
    ELSE LET x == CHOOSE y \in S : TRUE
             l == LCM(S \ {x})
         IN  (x * l) \div GCD(x, l)

Den(m) == LCM({m[i][j][2] : i \in 1..Rows(m), j \in 1..Cols(m)})

Scaled(m, l) ==
    Tup([i \in 1..Rows(m) |->
            Tup([j \in 1..Cols(m) |-> m[i][j][1] * (l \div m[i][j][2])], Cols(m))],
        Rows(m))

RECURSIVE ISum(_, _)
ISum(f, n) == IF n = 0 THEN 0 ELSE ISum(f, n - 1) + f[n]

RECURSIVE Pow(_, _)
Pow(x, n) == IF n = 0 THEN 1 ELSE x * Pow(x, n - 1)

\* the determinant of a square integer matrix, by expansion along row 1
RECURSIVE IDet(_)
IDet(n) ==
    IF Rows(n) = 1 THEN n[1][1]
    ELSE ISum(Tup([j \in 1..Cols(n) |->
                      (IF j % 2 = 1 THEN 1 ELSE -1) * n[1][j] * IDet(Minor(n, 1, j))],
                  Cols(n)), Cols(n))

ICofactor(n, i, j) ==
    (IF (i + j) % 2 = 0 THEN 1 ELSE -1)
        * (IF Rows(n) = 1 THEN 1 ELSE IDet(Minor(n, i, j)))

\* the determinant of a square matrix
Det(m) == LET l == Den(m) IN Norm(IDet(Scaled(m, l)), Pow(l, Rows(m)))

\* the inverse of a square matrix of non-zero determinant
Inverse(m) ==
    LET l == Den(m)
        n == Scaled(m, l)
        d == IDet(n)
    IN  Tup([i \in 1..Rows(m) |->
                Tup([j \in 1..Cols(m) |-> Norm(l * ICofactor(n, j, i), d)], Cols(m))],
            Rows(m))

(***************************************************************************)
(* Results of fallible calls.  work lists the numeric operations that ran  *)
(* to completion before the call returned or panicked.                     *)
(***************************************************************************)
NoVal == <<>>
Ok(v, w) == [st |-> "ok", val |-> v, work |-> w]
Err(kind, w) == [st |-> kind, val |-> NoVal, work |-> w]

\* ndarray_linalg invh / invh_into: Err for a matrix that is not square or
\* is singular, else the inverse
invh(m) ==
    IF IsSquare(m) /\ Det(m) # RZero
    THEN [ok |-> TRUE, val |-> Inverse(m)]
    ELSE [ok |-> FALSE, val |-> NoVal]

\* ndarray_linalg solveh: the solution x of m.x = v, Err as invh
solveh(m, v) ==
    IF IsSquare(m) /\ Det(m) # RZero
    THEN [ok |-> TRUE, val |-> MatVec(Inverse(m), v)]
    ELSE [ok |-> FALSE, val |-> NoVal]

\* ndarray: the shape of rhs broadcasts to the shape of self
Broadcasts1(self, rhs) == Len(rhs) = Len(self) \/ Len(rhs) = 1
Broadcasts2(self, rhs) ==
    /\ Rows(rhs) = Rows(self) \/ Rows(rhs) = 1
    /\ Cols(rhs) = Cols(self) \/ Cols(rhs) = 1

\* ndarray  self += &rhs  on Array1, rhs broadcast to the shape of self
AddAssign1(self, rhs) ==
    Tup([i \in 1..Len(self) |-> RAdd(self[i], rhs[IF Len(rhs) = 1 THEN 1 ELSE i])],
        Len(self))

\* ndarray  self += &rhs  on Array2, rhs broadcast to the shape of self
AddAssign2(self, rhs) ==
    Tup([i \in 1..Rows(self) |->
            Tup([j \in 1..Cols(self) |->
                    RAdd(self[i][j], rhs[IF Rows(rhs) = 1 THEN 1 ELSE i]
                                        [IF Cols(rhs) = 1 THEN 1 ELSE j])],
                Cols(self))], Rows(self))

(***************************************************************************)
(* struct M, struct E, enum Gaussian.                                      *)
(***************************************************************************)
MkM(center, cov) == [tag |-> "M", vec |-> center, mat |-> cov]
MkE(ab, prec) == [tag |-> "E", vec |-> ab, mat |-> prec]
NoGaussian == [tag |-> "none", vec |-> <<>>, mat |-> <<>>]

\* Gaussian::from_mean
from_mean(center, cov) == MkM(center, cov)

\* Gaussian::size, M::size, E::size
size(g) == Len(g.vec)

\* M::as_e
as_e(m) ==
    LET prec == invh(m.mat)
    IN  IF ~prec.ok THEN Err("SingularMatrix", <<>>)
        ELSE IF Cols(prec.val) # Len(m.vec) THEN Err("DimensionMismatch", <<"invh">>)
        ELSE Ok(MkE(MatVec(prec.val, m.vec), prec.val), <<"invh", "dot">>)

\* E::as_m
as_m(e) ==
    LET cov == invh(e.mat)
    IN  IF ~cov.ok THEN Err("SingularMatrix", <<>>)
        ELSE IF Cols(cov.val) # Len(e.vec) THEN Err("DimensionMismatch", <<"invh">>)
        ELSE Ok(MkM(MatVec(cov.val, e.vec), cov.val), <<"invh", "dot">>)

\* impl From<E> for M
MFromE(e) ==
    LET cov == invh(e.mat)
    IN  IF ~cov.ok THEN Err("SingularMatrix", <<>>)
        ELSE IF Cols(cov.val) # Len(e.vec) THEN Err("DimensionMismatch", <<"invh">>)
        ELSE Ok(MkM(MatVec(cov.val, e.vec), cov.val), <<"invh", "dot">>)

\* From<M> for E with ab = center: the precision is not applied
EFromM_Unweighted(m) ==
    LET prec == invh(m.mat)
    IN  IF ~prec.ok THEN Err("SingularMatrix", <<>>)
        ELSE Ok(MkE(m.vec, prec.val), <<"invh">>)

\* impl From<M> for E
EFromM(m) ==
    LET prec == invh(m.mat)
    IN  IF ~prec.ok THEN Err("SingularMatrix", <<>>)
        ELSE IF Cols(prec.val) # Len(m.vec) THEN Err("DimensionMismatch", <<"invh">>)
        ELSE Ok(MkE(MatVec(prec.val, m.vec), prec.val), <<"invh", "dot">>)

\* impl From<Gaussian> for M
MFromGaussian(g) == IF g.tag = "M" THEN Ok(g, <<>>) ELSE MFromE(g)

\* impl From<Gaussian> for E
EFromGaussian(g) == IF g.tag = "M" THEN EFromM(g) ELSE Ok(g, <<>>)

\* Gaussian::center
center(g) ==
    IF g.tag = "M" THEN Ok(g.vec, <<>>)
    ELSE LET x == solveh(g.mat, g.vec)
         IN  IF x.ok THEN Ok(x.val, <<"solveh">>) ELSE Err("SingularMatrix", <<>>)

\* Gaussian::cov
cov(g) ==
    IF g.tag = "M" THEN Ok(g.mat, <<>>)
    ELSE LET x == invh(g.mat)
         IN  IF x.ok THEN Ok(x.val, <<"invh">>) ELSE Err("SingularMatrix", <<>>)

\* MulAssign<&E> for E without  self.prec += &rhs.prec
MulAssignE_AbOnly(self, rhs) ==
    IF ~Broadcasts1(self.vec, rhs.vec) THEN Err("DimensionMismatch", <<>>)
    ELSE Ok(MkE(AddAssign1(self.vec, rhs.vec), self.mat), <<"add">>)

\* impl MulAssign<&E> for E: the value of self after  self *= rhs
MulAssignE(self, rhs) ==
    IF ~Broadcasts1(self.vec, rhs.vec) THEN Err("DimensionMismatch", <<>>)
    ELSE IF ~Broadcasts2(self.mat, rhs.mat) THEN Err("DimensionMismatch", <<"add">>)
    ELSE Ok(MkE(AddAssign1(self.vec, rhs.vec), AddAssign2(self.mat, rhs.mat)),
            <<"add", "add">>)

\* impl Mul<&E> for E
MulE(self, rhs) == MulAssignE(self, rhs)

\* Mul<&E> for &E with  ab = self.ab  instead of the sum
MulRefE_PrecOnly(self, rhs) ==
    IF ~Broadcasts2(self.mat, rhs.mat) THEN Err("DimensionMismatch", <<>>)
    ELSE Ok(MkE(self.vec, AddAssign2(self.mat, rhs.mat)), <<"add">>)

\* impl Mul<&E> for &E
MulRefE(self, rhs) ==
    IF ~Broadcasts1(self.vec, rhs.vec) THEN Err("DimensionMismatch", <<>>)
    ELSE IF ~Broadcasts2(self.mat, rhs.mat) THEN Err("DimensionMismatch", <<"add">>)
    ELSE Ok(MkE(AddAssign1(self.vec, rhs.vec), AddAssign2(self.mat, rhs.mat)),
            <<"add", "add">>)

\* impl Mul<&Gaussian> for Gaussian
MulGaussian(self, rhs) ==
    LET self_e == EFromGaussian(self)
    IN  IF self_e.st # "ok" THEN self_e
        ELSE LET rhs_e == IF rhs.tag = "M" THEN as_e(rhs) ELSE Ok(rhs, <<>>)
             IN  IF rhs_e.st # "ok" THEN Err(rhs_e.st, self_e.work \o rhs_e.work)
                 ELSE LET p == MulE(self_e.val, rhs_e.val)
                      IN  [p EXCEPT !.work = self_e.work \o rhs_e.work \o @]

\* impl Mul<&Gaussian> for &Gaussian
MulRefGaussian(self, rhs) == MulGaussian(self, rhs)

\* the placeholder of MulAssign<&Gaussian>
dummy == MkE(<<RZero>>, <<<<RZero>>>>)

\* impl MulAssign<&Gaussian> for Gaussian: val is what self holds when the
\* call returns or unwinds
MulAssignGaussian(self, rhs) ==
    LET e == EFromGaussian(self)
    IN  IF e.st # "ok" THEN [e EXCEPT !.val = dummy]
        ELSE LET rhs_e == IF rhs.tag = "M" THEN as_e(rhs) ELSE Ok(rhs, <<>>)
             IN  IF rhs_e.st # "ok"
                 THEN [st |-> rhs_e.st, val |-> dummy, work |-> e.work \o rhs_e.work]
                 ELSE LET p == MulAssignE(e.val, rhs_e.val)
                      IN  [st |-> p.st,
                           val |-> IF p.st = "ok" THEN p.val ELSE dummy,
                           work |-> e.work \o rhs_e.work \o p.work]

(***************************************************************************)
(* struct PGaussian.                                                       *)
(***************************************************************************)
MkPG(projection, gaussian) == [projection |-> projection, gaussian |-> gaussian]
NoPG == MkPG(<<>>, NoGaussian)

\* PGaussian::new
PGaussianNew(projection, gaussian) ==
    IF Rows(projection) # size(gaussian) THEN Err("DimensionMismatch", <<>>)
    ELSE Ok(MkPG(projection, gaussian), <<>>)

\* PGaussian::size returning self.projection.rows()
PGaussianSize_Rows(p) == Rows(p.projection)

\* PGaussian::size returning self.gaussian.size()
PGaussianSize_Held(p) == size(p.gaussian)

\* PGaussian::size
PGaussianSize(p) == Cols(p.projection)

\* PGaussian::reduction returning the held Gaussian, not projected
reduction_Unprojected(p) == EFromGaussian(p.gaussian)

\* PGaussian::reduction
reduction(p) ==
    LET e == EFromGaussian(p.gaussian)
        t == Transpose(p.projection)
    IN  IF e.st # "ok" THEN e
        ELSE IF Cols(t) # Len(e.val.vec) THEN Err("DimensionMismatch", e.work)
        ELSE IF Cols(t) # Rows(e.val.mat)
             THEN Err("DimensionMismatch", e.work \o <<"dot">>)
        ELSE IF Cols(e.val.mat) # Rows(p.projection)
             THEN Err("DimensionMismatch", e.work \o <<"dot", "dot">>)
        ELSE Ok(MkE(MatVec(t, e.val.vec),
                    MatMul(MatMul(t, e.val.mat), p.projection)),
                e.work \o <<"dot", "dot", "dot">>)

(***************************************************************************)
(* Inputs.                                                                 *)
(***************************************************************************)
\* the r x c matrix with d on the diagonal and o elsewhere
Rect(r, c, d, o) ==
    Tup([i \in 1..r |->
            Tup([j \in 1..c |-> IF i = j THEN RInt(d) ELSE RInt(o)], c)], r)

\* the vector <<v, 0, .., 0>> of length n
Unit(n, v) == Tup([i \in 1..n |-> IF i = 1 THEN RInt(v) ELSE RZero], n)

Dims == 1..MaxDim
Tags == {"M", "E"}

\* symmetric n x n matrices: positive definite for d > o, singular for
\* d = o and n > 1
Mats(n) == {Rect(n, n, d, o) : d \in 1..MaxVal, o \in 0..1}
Vecs(n) == {Unit(n, v) : v \in {1, MaxVal}}

\* Gaussians whose matrix is square and as large as the vector is long
Consistent(n) ==
    {[tag |-> t, vec |-> v, mat |-> m] : t \in Tags, v \in Vecs(n), m \in Mats(n)}
Gc == UNION {Consistent(n) : n \in Dims}

\* right-hand operands: the unit Gaussian of the tests, a positive definite
\* one with correlations and a singular one, in every dimension and form
Gb ==
    {[tag |-> t, vec |-> Unit(n, p[1]), mat |-> Rect(n, n, p[2], p[3])] :
        t \in Tags, n \in Dims, p \in {<<1, 1, 0>>, <<MaxVal, MaxVal, 1>>, <<1, 1, 1>>}}

\* Gaussians whose matrix is not square, or is square of another dimension
\* than the vector
Inconsistent ==
    {g \in {[tag |-> t, vec |-> Unit(n, 1), mat |-> Rect(rw, cl, d, 0)] :
                t \in Tags, d \in 1..MaxVal, n \in Dims, rw \in Dims, cl \in Dims} :
        ~(Rows(g.mat) = Cols(g.mat) /\ Rows(g.mat) = Len(g.vec))}

\* projections: rectangular selections, scaled
Projections == {Rect(rw, cl, d, 0) : rw \in Dims, cl \in Dims, d \in 1..MaxVal}

IsConsistent(g) == IsSquare(g.mat) /\ Rows(g.mat) = Len(g.vec)

(***************************************************************************)
(* State: a caller holding Gaussians a and b, a projection h and a         *)
(* projected Gaussian pg; made tells how pg was built ("new", "literal")   *)
(* or how PGaussian::new failed.  r is the outcome                         *)
(* of the operation the caller applied to them and q the outcome of the    *)
(* accessor or conversion it then applied to a or to the result.           *)
(***************************************************************************)
VARIABLES a, b, h, pg, made, r, q

vars == <<a, b, h, pg, made, r, q>>

NoProjection == <<>>
NoRes == [op |-> "none", st |-> "none", val |-> NoGaussian, work |-> <<>>]
NoQ == [op |-> "none", st |-> "none", val |-> NoVal]

\* the outcome x of operation op, as r holds it
Res(op, x) ==
    [op |-> op, st |-> x.st,
     val |-> IF x.st = "ok" THEN x.val ELSE NoGaussian, work |-> x.work]

\* the outcome x of accessor op, as q holds it
Qry(op, x) == [op |-> op, st |-> x.st, val |-> x.val]

Init ==
    /\ \/ a \in Gc \cup Inconsistent /\ b = NoGaussian
       \/ a \in Gc /\ b \in Gb
    /\ h = NoProjection
    /\ pg = NoPG
    /\ made = "none"
    /\ r = NoRes
    /\ q = NoQ

InitP ==
    /\ a \in Gc
    /\ b = NoGaussian
    /\ h \in Projections
    /\ pg = NoPG
    /\ made = "none"
    /\ r = NoRes
    /\ q = NoQ

Fresh == r.op = "none" /\ q.op = "none" /\ made = "none"

\* &a * &b
Fuse ==
    /\ Fresh /\ b # NoGaussian
    /\ r' = Res("fuse", MulRefGaussian(a, b))
    /\ UNCHANGED <<a, b, h, pg, made, q>>

\* a *= &b
FuseInto ==
    /\ Fresh /\ b # NoGaussian
    /\ LET x == MulAssignGaussian(a, b)
       IN  /\ a' = x.val
           /\ r' = [op |-> "fuseInto", st |-> x.st, val |-> x.val, work |-> x.work]
    /\ UNCHANGED <<b, h, pg, made, q>>

\* &a * &b on two E (tests/gaussian.rs e::merge)
MergeE ==
    /\ Fresh /\ a.tag = "E" /\ b.tag = "E"
    /\ r' = Res("mulE", MulRefE(a, b))
    /\ UNCHANGED <<a, b, h, pg, made, q>>

\* the Gaussian the accessors and conversions act on: a, or the result of
\* the operation applied before
OnA == Fresh /\ b = NoGaussian /\ h = NoProjection
OnR == r.op # "none" /\ r.st = "ok" /\ q.op = "none"
Subject == IF r.op = "none" THEN a ELSE r.val

\* a conversion of a is an operation (its outcome is r), a conversion of
\* the result an accessor (its outcome is q)
Convert(op, x) ==
    IF r.op = "none"
    THEN r' = Res(op, x) /\ UNCHANGED <<a, b, h, pg, made, q>>
    ELSE q' = Qry(op, x) /\ UNCHANGED <<a, b, h, pg, made, r>>

\* let e: E = g.into()
ToNatural == (OnA \/ OnR) /\ Convert("toNatural", EFromGaussian(Subject))

\* let m: M = g.into()
ToMoment == (OnA \/ OnR) /\ Convert("toMoment", MFromGaussian(Subject))

\* m.as_e()
AsE == (OnA \/ OnR) /\ Subject.tag = "M" /\ Convert("as_e", as_e(Subject))

\* e.as_m()
AsM == (OnA \/ OnR) /\ Subject.tag = "E" /\ Convert("as_m", as_m(Subject))

Access(op, x) == q' = Qry(op, x) /\ UNCHANGED <<a, b, h, pg, made, r>>

\* g.size()
Size == (OnA \/ OnR) /\ Access("size", Ok(size(Subject), <<>>))

\* g.center(); what solveh does with a right-hand side of another length
\* than the matrix is not modelled
Center ==
    /\ OnA \/ OnR
    /\ Subject.tag = "E" /\ IsSquare(Subject.mat) => IsConsistent(Subject)
    /\ Access("center", center(Subject))

\* g.cov()
Cov == (OnA \/ OnR) /\ Access("cov", cov(Subject))

\* PGaussian::new(h, a)
PGNew ==
    /\ Fresh /\ h # NoProjection
    /\ LET x == PGaussianNew(h, a)
       IN  pg' = IF x.st = "ok" THEN x.val ELSE NoPG
    /\ made' = IF PGaussianNew(h, a).st = "ok" THEN "new" ELSE PGaussianNew(h, a).st
    /\ UNCHANGED <<a, b, h, r, q>>

\* PGaussian { projection: h, gaussian: a } (tests/gaussian.rs pg_3to2)
PGLiteral ==
    /\ Fresh /\ h # NoProjection
    /\ pg' = MkPG(h, a)
    /\ made' = "literal"
    /\ UNCHANGED <<a, b, h, r, q>>

Built == made \in {"new", "literal"} /\ r.op = "none" /\ q.op = "none"

\* pg.size()
PGSize ==
    /\ Built
    /\ Access("pgsize", Ok(PGaussianSize(pg), <<>>))

\* pg.reduction()
Reduction ==
    /\ Built
    /\ r' = Res("reduction", reduction(pg))
    /\ UNCHANGED <<a, b, h, pg, made, q>>

Next ==
    \/ Fuse \/ FuseInto \/ MergeE
    \/ ToNatural \/ ToMoment \/ AsE \/ AsM
    \/ Size \/ Center \/ Cov

NextP ==
    \/ PGNew \/ PGLiteral \/ PGSize \/ Reduction
    \/ Size \/ Center \/ Cov

Spec == Init /\ [][Next]_vars

SpecP == InitP /\ [][NextP]_vars

(***************************************************************************)
(* Properties.                                                             *)
(***************************************************************************)
Leading(m, k) == Tup([i \in 1..k |-> Tup([j \in 1..k |-> m[i][j]], k)], k)

IsSymmetric(m) == \A i \in 1..Rows(m), j \in 1..Cols(m) : m[i][j] = m[j][i]

\* positive definite: symmetric with positive leading principal minors
IsPD(m) ==
    /\ IsSquare(m)
    /\ IsSymmetric(m)
    /\ \A k \in 1..Rows(m) : RPos(Det(Leading(m, k)))

\* element by element sums of arrays of equal shape, and m / 2
Add1(x, y) == Tup([i \in 1..Len(x) |-> RAdd(x[i], y[i])], Len(x))
Add2(x, y) == Tup([i \in 1..Rows(x) |-> Add1(x[i], y[i])], Rows(x))
Half(m) ==
    Tup([i \in 1..Rows(m) |->
            Tup([j \in 1..Cols(m) |-> RDiv(m[i][j], RInt(2))], Cols(m))], Rows(m))

\* C1: fuse(a, b) on Gaussians of equal size, in any combination of forms,
\* returns a Gaussian in Natural form whose information vector and
\* precision are the sums of those of toNatural(a) and toNatural(b); it is
\* not converted back to Moment form, and b is left as it was.
C1_FuseAddsNaturalParameters ==
    [][(/\ Fuse
        /\ size(a) = size(b)
        /\ EFromGaussian(a).st = "ok"
        /\ EFromGaussian(b).st = "ok")
       => /\ r'.st = "ok"
          /\ r'.val.tag = "E"
          /\ r'.val.vec = Add1(EFromGaussian(a).val.vec, EFromGaussian(b).val.vec)
          /\ r'.val.mat = Add2(EFromGaussian(a).val.mat, EFromGaussian(b).val.mat)
          /\ b' = b]_vars

C1_Witness ==
    /\ r.op = "fuse" /\ r.st = "ok"
    /\ a.tag = "M" /\ b.tag = "E"
    /\ size(a) = size(b) /\ size(a) > 1
    /\ a.mat[1][2] # RZero /\ b.mat[1][2] # RZero

\* C2: fuse(a, b) and fuseInto(a, b) on Gaussians of different size end in
\* DimensionMismatch, raised before any numeric work.
C2_MismatchRejectedBeforeWork ==
    [][((Fuse \/ FuseInto) /\ size(a) # size(b))
       => (r'.st = "DimensionMismatch" /\ r'.work = <<>>)]_vars

\* C3: a failed fuseInto(a, b) leaves the receiver a as it was before the
\* call.
C3_FuseIntoAtomic == [][(FuseInto /\ r'.st # "ok") => a' = a]_vars

\* C4: toMoment(toNatural(m)) has the center and covariance of m for every
\* MomentForm m with positive definite covariance, and
\* toNatural(toMoment(e)) the information vector and precision of e for
\* every NaturalForm e with positive definite precision.
C4_RoundTrip ==
    /\ (/\ a.tag = "M" /\ IsConsistent(a) /\ IsPD(a.mat)
        /\ r.op \in {"toNatural", "as_e"})
       => /\ r.st = "ok"
          /\ q.op \in {"toMoment", "as_m"}
             => /\ q.st = "ok" /\ q.val.tag = "M"
                /\ q.val.vec = a.vec /\ q.val.mat = a.mat
    /\ (/\ a.tag = "E" /\ IsConsistent(a) /\ IsPD(a.mat)
        /\ r.op \in {"toMoment", "as_m"})
       => /\ r.st = "ok"
          /\ q.op \in {"toNatural", "as_e"}
             => /\ q.st = "ok" /\ q.val.tag = "E"
                /\ q.val.vec = a.vec /\ q.val.mat = a.mat

C4_Witness ==
    /\ a.tag = "M" /\ IsConsistent(a) /\ IsPD(a.mat) /\ size(a) > 1 /\ a.mat[1][2] # RZero
    /\ r.op = "toNatural" /\ q.op = "toMoment" /\ q.st = "ok"

\* C5: fusing two Gaussians of the same mean mu and the same positive
\* definite covariance Sigma yields a Gaussian of center mu and covariance
\* Sigma / 2, for E * E converted to Moment form and for
\* Gaussian * Gaussian queried with center() and cov().
C5_FuseEqualHalvesCovariance ==
    (/\ r.op \in {"fuse", "mulE"}
     /\ MFromGaussian(a).st = "ok"
     /\ MFromGaussian(b).st = "ok"
     /\ MFromGaussian(a).val = MFromGaussian(b).val
     /\ IsPD(MFromGaussian(a).val.mat))
    => LET mu == MFromGaussian(a).val.vec
           Sigma == MFromGaussian(a).val.mat
       IN  /\ r.st = "ok"
           /\ q.op = "center" => (q.st = "ok" /\ q.val = mu)
           /\ q.op = "cov" => (q.st = "ok" /\ q.val = Half(Sigma))
           /\ q.op \in {"toMoment", "as_m"}
              => (q.st = "ok" /\ q.val.vec = mu /\ q.val.mat = Half(Sigma))

C5_Witness ==
    /\ r.op = "fuse" /\ a = b /\ a.tag = "M"
    /\ IsPD(a.mat) /\ size(a) > 1 /\ a.mat[1][2] # RZero
    /\ q.op = "cov" /\ q.st = "ok"

\* C6: PGaussian::size() is the number of columns of the projection,
\* whatever the size of the held Gaussian, and it is the size() of the
\* Gaussian that reduction() returns.
C6_SizeIsColumns ==
    /\ q.op = "pgsize" => (q.st = "ok" /\ q.val = Len(pg.projection[1]))
    /\ (r.op = "reduction" /\ r.st = "ok")
       => /\ Len(r.val.vec) = Len(pg.projection[1])
          /\ q.op = "size" => q.val = Len(pg.projection[1])

C6_Witness ==
    /\ q.op = "pgsize" /\ made = "literal"
    /\ size(pg.gaussian) # Rows(pg.projection)
    /\ size(pg.gaussian) # Cols(pg.projection)
    /\ Rows(pg.projection) # Cols(pg.projection)

\* C7 as stated: for a 3-dimensional Gaussian and a 3 x 2 projection,
\* PGaussian::size() returns 3, the number of rows.
C7_SizeOf3x2IsThree ==
    (/\ q.op = "pgsize"
     /\ size(pg.gaussian) = 3
     /\ Rows(pg.projection) = 3 /\ Cols(pg.projection) = 2)
    => q.val = 3

\* C7 amended: for a 3-dimensional Gaussian and a 3 x 2 projection,
\* PGaussian::size() returns 2, the number of columns.
C7_SizeOf3x2IsTwo ==
    (/\ q.op = "pgsize"
     /\ size(pg.gaussian) = 3
     /\ Rows(pg.projection) = 3 /\ Cols(pg.projection) = 2)
    => q.val = 2

C7_Witness ==
    /\ q.op = "pgsize" /\ made = "new"
    /\ size(pg.gaussian) = 3
    /\ Rows(pg.projection) = 3 /\ Cols(pg.projection) = 2

\* a projected Gaussian whose Gaussian is consistent, invertible and as
\* large as the projection has rows
WellFormed(p) ==
    /\ IsConsistent(p.gaussian)
    /\ Rows(p.projection) = size(p.gaussian)
    /\ Det(p.gaussian.mat) # RZero

C9_SizeChecksConsistency ==
    ~IsConsistent(a)
    => /\ (r.op = "none" /\ q.op = "size") => q.st = "DimensionMismatch"
       /\ r.op # "none" => (r.st = "DimensionMismatch" /\ r.work = <<>>)

\* C10: every PGaussian that exists has as many projection rows as its
\* Gaussian has dimensions, so reduction() only ever runs on a projection
\* whose row count matches the held Gaussian's size.
C10_EveryProjectedGaussianMatches ==
    pg # NoPG => Rows(pg.projection) = size(pg.gaussian)
====
